---- MODULE Spec2Model ----
(***************************************************************************)
(* Model of src/adapter/admin/transaction.mjs: the transactional           *)
(* read(...).write(...) layer over a document-database client.             *)
(*                                                                         *)
(* Strings that are taken apart or put together by the code (collection    *)
(* and document paths) are sequences of atoms: an atom is either the       *)
(* separator "/" or a non-empty chunk that holds no separator.  Names and  *)
(* document ids are single chunks.  JavaScript values are records tagged   *)
(* with their class; an object literal is the sequence of its entries.     *)
(***************************************************************************)
EXTENDS Integers, Sequences, FiniteSets, TLC

VARIABLES
  db,          \* the schema descriptor handed to transaction(db, options)
  store,       \* the database: document path -> native data, or NoDoc
  pc,          \* position of the invocation
  options,     \* the options handed to transaction(db, options)
  mode,        \* the repertoire of the user's callbacks in this run
  txn,         \* the transaction handle of the current attempt (0: none opened)
  staged,      \* per transaction handle: the writes the client has been handed
  reads,       \* per transaction handle: the documents the client was asked to read
  last,        \* the last call a callback made, with its arguments
  readTree,    \* helpers.db of the read callback of the current attempt
  writeTree,   \* helpers.db of the write callback of the current attempt
  result,      \* helpers.result of the write callback of the current attempt
  rc,          \* state of the promise returned by the read callback
  wc,          \* state of the write callback
  pending,     \* get calls of the read callback awaiting their snapshot
  got,         \* what the read callback's get calls resolved with, in order
  readResult,  \* what the read callback's promise settled with
  readCalls,   \* per attempt: invocations of the read callback
  writeCalls,  \* per attempt: invocations of the write callback
  body,        \* how the transaction body of the current attempt ended
  outcome,     \* how transaction(...)/.write(...) ended for the caller
  committed    \* the handle whose writes were committed (0: none)

vars == <<db, store, pc, options, mode, txn, staged, reads, last, readTree, writeTree,
          result, rc, wc, pending, got, readResult, readCalls, writeCalls, body,
          outcome, committed>>

----------------------------------------------------------------------------
(* Bounds of the model *)

MaxAttempts == 2
MaxReads == 2
MaxWrites == 2
MaxPathLen == 7

----------------------------------------------------------------------------
(* JavaScript values *)

Undefined == [class |-> "undefined"]
Null == [class |-> "null"]
Num(n) == [class |-> "number", value |-> n]
Arr(items) == [class |-> "Array", items |-> items]
Obj(entries) == [class |-> "Object", entries |-> entries]
Fn(returns) == [class |-> "Function", returns |-> returns]
Promise(state) == [class |-> "Promise", state |-> state]
Error(name, message, about) == [name |-> name, message |-> message, about |-> about]
Throw(error) == [class |-> "throw", error |-> error]
IsThrow(v) == v.class = "throw"

\* the client's native document reference, as stored in a document
DocumentReference(path) == [class |-> "DocumentReference", path |-> path]

UpdateField(key, value) == [class |-> "UpdateField", key |-> key, value |-> value]

\* JavaScript truthiness of the values the model uses
Truthy(v) ==
  /\ v.class \notin {"undefined", "null"}
  /\ ~(v.class = "number" /\ v.value = 0)

\* typeof v === "object" for a non-null v
IsObject(v) == v.class \notin {"undefined", "null", "number", "Function"}

Slash == "/"
NoDoc == [class |-> "NoDoc"]
rootDB == "db"

----------------------------------------------------------------------------
(* Classes of transaction.mjs *)

ReadCollection(d, transaction, name, path) ==
  [class |-> "ReadCollection", db |-> d, type |-> "collection", name |-> name,
   path |-> path, transaction |-> transaction]

ReadRef(collection, id) ==
  [class |-> "ReadRef", type |-> "ref", collection |-> collection, id |-> id]

ReadDoc(collection, id, data) ==
  [class |-> "ReadDoc", type |-> "doc", environment |-> "server",
   ref |-> ReadRef(collection, id), data |-> data]

WriteCollection(d, transaction, name, path) ==
  [class |-> "WriteCollection", db |-> d, type |-> "collection", name |-> name,
   path |-> path, transaction |-> transaction]

WriteRef(collection, id) ==
  [class |-> "WriteRef", type |-> "ref", collection |-> collection, id |-> id]

WriteDoc(collection, id, data) ==
  [class |-> "WriteDoc", type |-> "doc", environment |-> "server",
   ref |-> WriteRef(collection, id), data |-> data]

(* Classes of core.mjs, the caller-facing shapes *)

Collection(d, name, path) ==
  [class |-> "Collection", db |-> d, type |-> "collection", name |-> name,
   path |-> path]

Ref(collection, id) ==
  [class |-> "Ref", type |-> "ref", collection |-> collection, id |-> id]

Doc(collection, id, data) ==
  [class |-> "Doc", type |-> "doc", environment |-> "server",
   ref |-> Ref(collection, id), data |-> data]

----------------------------------------------------------------------------
(* The schema descriptor (consumed): a mapping, in entry order, from key to *)
(* a collection descriptor (typeof "object") or a parameterized factory    *)
(* (typeof "function") carrying its own path; sub lists the collections of *)
(* the nested schema a factory returns.  The keys id and groups are        *)
(* metadata of the db handle.                                              *)

Ids == {"1", "2"}

Template(key, typeof, sub) == [key |-> key, typeof |-> typeof, sub |-> sub]

Descriptor(typeof, name, path, sub) ==
  [typeof |-> typeof, name |-> name, path |-> path, sub |-> sub]

\* collection(id): the nested schema of a parameterized factory
CallCollection(collection, id) ==
  [i \in 1..Len(collection.sub) |->
     LET t == collection.sub[i]
     IN <<t.key, Descriptor(t.typeof, t.key,
                            collection.path \o <<Slash, id, Slash, t.key>>, t.sub)>>]

Schema ==
  << <<"users", Descriptor("object", "users", <<"users">>, <<>>)>>,
     <<"posts", Descriptor("function", "posts", <<"posts">>,
                           <<Template("comments", "object", <<>>)>>)>>,
     <<"id", Descriptor("function", "id", <<>>, <<>>)>>,
     <<"groups", Descriptor("object", "groups", <<>>, <<>>)>> >>

\* the schema descriptors the trees are built from: users and posts, each
\* absent, static or parameterized (with nested schemas two levels deep and
\* nested collections that happen to be called id or groups), and the
\* metadata entries of the db handle
UsersEntries ==
  {<<>>,
   << <<"users", Descriptor("object", "users", <<"users">>, <<>>)>> >>,
   << <<"users", Descriptor("function", "users", <<"users">>,
                            <<Template("comments", "object", <<>>)>>)>> >>}

PostsEntries ==
  {<<>>,
   << <<"posts", Descriptor("object", "posts", <<"posts">>, <<>>)>> >>,
   << <<"posts", Descriptor("function", "posts", <<"posts">>,
           <<Template("comments", "function", <<Template("likes", "object", <<>>)>>),
             Template("groups", "object", <<>>)>>)>> >>,
   << <<"posts", Descriptor("function", "posts", <<"posts">>,
           <<Template("id", "object", <<>>)>>)>> >>}

MetaEntries ==
  {<<>>,
   << <<"groups", Descriptor("object", "groups", <<>>, <<>>)>> >>,
   << <<"id", Descriptor("function", "id", <<>>, <<>>)>>,
      <<"groups", Descriptor("object", "groups", <<>>, <<>>)>> >>}

SchemaSet ==
  {u \o p \o m : u \in UsersEntries, p \in PostsEntries, m \in MetaEntries}

Keys(entries) == {entries[i][1] : i \in 1..Len(entries)}

\* obj[key] of a mapping that has the key
Lookup(entries, key) ==
  LET i == CHOOSE j \in 1..Len(entries) : entries[j][1] = key IN entries[i][2]

\* delete obj[key]
DeleteKey(entries, key) == SelectSeq(entries, LAMBDA e : e[1] # key)

----------------------------------------------------------------------------
(* The read tree and the write tree *)

\* `${nestedPath}/${name}`, or name when nestedPath is undefined
HandlePath(nestedPath, name) ==
  IF nestedPath # <<>> THEN nestedPath \o <<Slash, name>> ELSE <<name>>

\* the value stored under a key of a tree: the handle itself, or the proxy
\* that answers property reads from the handle and descends when applied
TreeEntry(handle, collection) ==
  IF collection.typeof = "function"
    THEN [proxy |-> TRUE, target |-> handle, collection |-> collection]
    ELSE [proxy |-> FALSE, target |-> handle]

ReadConvertDB(d, transaction, nestedPath) ==
  [i \in 1..Len(d) |->
     <<d[i][1],
       TreeEntry(ReadCollection(rootDB, transaction, d[i][1],
                                HandlePath(nestedPath, d[i][1])),
                 d[i][2])>>]

readDB(d, transaction) ==
  LET filteredDB == DeleteKey(DeleteKey(d, "id"), "groups")
  IN ReadConvertDB(filteredDB, transaction, <<>>)

\* an apply trap that forgets the document id
ReadApplyNoId(entry, id) ==
  ReadConvertDB(CallCollection(entry.collection, id), entry.target.transaction,
                entry.collection.path)

\* the apply trap of a read proxy
ReadApply(entry, id) ==
  ReadConvertDB(CallCollection(entry.collection, id), entry.target.transaction,
                entry.collection.path \o <<Slash, id>>)

\* handles that take their name for their path
WriteConvertDBFlat(d, transaction, nestedPath) ==
  [i \in 1..Len(d) |->
     <<d[i][1],
       TreeEntry(WriteCollection(rootDB, transaction, d[i][1], <<d[i][1]>>),
                 d[i][2])>>]

WriteConvertDB(d, transaction, nestedPath) ==
  [i \in 1..Len(d) |->
     <<d[i][1],
       TreeEntry(WriteCollection(rootDB, transaction, d[i][1],
                                 HandlePath(nestedPath, d[i][1])),
                 d[i][2])>>]

writeDB(d, transaction) ==
  LET filteredDB == DeleteKey(DeleteKey(d, "id"), "groups")
  IN WriteConvertDB(filteredDB, transaction, <<>>)

\* the apply trap of a write proxy
WriteApply(entry, id) ==
  WriteConvertDB(CallCollection(entry.collection, id), entry.target.transaction,
                 entry.collection.path \o <<Slash, id>>)

\* rootDB once readDB / writeDB has run: `{ ...rootDB }` is a copy, and the
\* two deletes act on the copy
\* readDB deleting the keys from rootDB itself
readDB_rootDBAliased(d) == DeleteKey(DeleteKey(d, "id"), "groups")

readDB_rootDB(d) == d

writeDB_rootDB(d) == d

transactionReadHelpers(d, transaction) == [db |-> readDB(d, transaction)]

\* the handles user code reaches from a tree: its entries, and the entries
\* of the nested trees its proxies return
TreeTargets(tree) == {tree[i][2].target : i \in 1..Len(tree)}

Proxies(tree) == {tree[i][2] : i \in {j \in 1..Len(tree) : tree[j][2].proxy}}

ReadHandles(tree) ==
  TreeTargets(tree) \cup
  UNION {TreeTargets(ReadApply(e, id)) : e \in Proxies(tree), id \in Ids}

WriteHandles(tree) ==
  TreeTargets(tree) \cup
  UNION {TreeTargets(WriteApply(e, id)) : e \in Proxies(tree), id \in Ids}

----------------------------------------------------------------------------
(* Path Resolver and Data Wrapper/Unwrapper *)

\* path.match(pathRegExp): the captures <<nestedPath, name, id>>, or Null.
\* Grammar: (<nestedPrefix>/)?<collectionName>/<documentId>
pathRegExpMatch(path) ==
  LET n == Len(path)
      wellFormed ==
        /\ n >= 3
        /\ n % 2 = 1
        /\ \A i \in 1..n : (path[i] = Slash) <=> (i % 2 = 0)
  IN IF wellFormed
       THEN <<SubSeq(path, 1, n - 3), path[n - 2], path[n]>>
       ELSE Null

\* a resolver that takes the collection's name for its path
pathToWriteRefNameOnly(d, transaction, path) ==
  LET captures == pathRegExpMatch(path)
  IN IF captures = Null
       THEN Throw(Error("Error", "Can't parse path", path))
       ELSE WriteRef(WriteCollection(d, transaction, captures[2], <<captures[2]>>),
                     captures[3])

pathToWriteRef(d, transaction, path) ==
  LET captures == pathRegExpMatch(path)
  IN IF captures = Null
       THEN Throw(Error("Error", "Can't parse path", path))
       ELSE WriteRef(WriteCollection(d, transaction, captures[2],
                                     captures[1] \o <<captures[2]>>),
                     captures[3])

\* the resolver ReadCollection.get hands to wrapData
refResolver(d, transaction, path) == pathToWriteRef(d, transaction, path)

RECURSIVE wrapData(_, _, _)
wrapData(d, data, transaction) ==
  CASE data.class = "DocumentReference" -> refResolver(d, transaction, data.path)
    [] data.class = "Array" ->
         Arr([i \in 1..Len(data.items) |-> wrapData(d, data.items[i], transaction)])
    [] data.class = "Object" ->
         Obj([i \in 1..Len(data.entries) |->
                <<data.entries[i][1], wrapData(d, data.entries[i][2], transaction)>>])
    [] OTHER -> data

RECURSIVE unwrapData(_)
unwrapData(data) ==
  CASE data.class \in {"WriteRef", "ReadRef", "Ref"} ->
         DocumentReference(data.collection.path \o <<Slash, data.id>>)
    [] data.class = "Array" ->
         Arr([i \in 1..Len(data.items) |-> unwrapData(data.items[i])])
    [] data.class = "Object" ->
         Obj([i \in 1..Len(data.entries) |->
                <<data.entries[i][1], unwrapData(data.entries[i][2])>>])
    [] OTHER -> data

\* updateFields(fields): a sequence of Update Fields as a field -> value mapping
updateFields(fields) ==
  Obj([i \in 1..Len(fields) |-> <<fields[i].key, fields[i].value>>])

----------------------------------------------------------------------------
(* The write handles: every method hands the client's transaction at most  *)
(* one call, returned here as a sequence of calls                          *)

\* this.firestore().collection(this.path).doc(id)
DocOf(path, id) == path \o <<Slash, id>>

TxCall(transaction, method, doc, data, merge) ==
  [transaction |-> transaction, method |-> method, doc |-> doc, data |-> data,
   merge |-> merge]

\* typeof data === "function" ? data(helpers) : data
Resolve(data) == IF data.class = "Function" THEN data.returns ELSE data

\* how many times a method given data calls it
Invocations(data) == IF data.class = "Function" THEN 1 ELSE 0

\* Object.keys(update).length
KeyCount(update) == IF update.class = "Object" THEN Len(update.entries) ELSE 0

\* set handing the client a function it was given instead of calling it
WriteCollection_setUnresolved(this, id, data) ==
  <<TxCall(this.transaction, "set", DocOf(this.path, id), unwrapData(data), FALSE)>>

WriteCollection_set(this, id, data) ==
  LET dataToSet == Resolve(data)
  IN <<TxCall(this.transaction, "set", DocOf(this.path, id),
              unwrapData(dataToSet), FALSE)>>

\* upset without its merge option
WriteCollection_upsetNoMerge(this, id, data) ==
  LET dataToUpset == Resolve(data)
  IN <<TxCall(this.transaction, "set", DocOf(this.path, id),
              unwrapData(dataToUpset), FALSE)>>

WriteCollection_upset(this, id, data) ==
  LET dataToUpset == Resolve(data)
  IN <<TxCall(this.transaction, "set", DocOf(this.path, id),
              unwrapData(dataToUpset), TRUE)>>

\* update without its check for an empty update set
WriteCollection_updateUnchecked(this, id, data) ==
  LET updateData == Resolve(data)
      update == CASE updateData.class = "Array" -> updateFields(updateData.items)
                  [] updateData.class = "UpdateField" -> updateFields(<<updateData>>)
                  [] OTHER -> updateData
  IN IF ~Truthy(updateData) THEN <<>>
     ELSE <<TxCall(this.transaction, "update", DocOf(this.path, id),
                   unwrapData(update), FALSE)>>

WriteCollection_update(this, id, data) ==
  LET updateData == Resolve(data)
      update == CASE updateData.class = "Array" -> updateFields(updateData.items)
                  [] updateData.class = "UpdateField" -> updateFields(<<updateData>>)
                  [] OTHER -> updateData
  IN IF ~Truthy(updateData) THEN <<>>
     ELSE IF KeyCount(update) = 0 THEN <<>>
     ELSE <<TxCall(this.transaction, "update", DocOf(this.path, id),
                   unwrapData(update), FALSE)>>

WriteCollection_remove(this, id) ==
  <<TxCall(this.transaction, "delete", DocOf(this.path, id), Undefined, FALSE)>>

\* fromRead taking the collection's name for its path
WriteCollection_fromReadByName(collection) ==
  WriteCollection(collection.db, collection.transaction, collection.name,
                  <<collection.name>>)

WriteCollection_fromRead(collection) ==
  WriteCollection(collection.db, collection.transaction, collection.name,
                  collection.path)

WriteRef_set(this, data) == WriteCollection_set(this.collection, this.id, data)
WriteRef_upset(this, data) == WriteCollection_upset(this.collection, this.id, data)
WriteRef_update(this, data) == WriteCollection_update(this.collection, this.id, data)
WriteRef_remove(this) == WriteCollection_remove(this.collection, this.id)

\* reads doc.ref: a value without a ref property makes it throw
WriteRef_fromRead(doc) ==
  IF "ref" \in DOMAIN doc
    THEN WriteRef(WriteCollection_fromRead(doc.ref.collection), doc.ref.id)
    ELSE Throw(Error("TypeError", "Cannot read properties of undefined", <<>>))

WriteDoc_set(this, data) == WriteRef_set(this.ref, data)
WriteDoc_upset(this, data) == WriteRef_upset(this.ref, data)
WriteDoc_update(this, data) == WriteRef_update(this.ref, data)
WriteDoc_remove(this) == WriteRef_remove(this.ref)

\* fromRead leaving the payload behind
WriteDoc_fromReadNoData(doc) ==
  WriteDoc(WriteCollection_fromRead(doc.ref.collection), doc.ref.id, Undefined)

WriteDoc_fromRead(doc) ==
  WriteDoc(WriteCollection_fromRead(doc.ref.collection), doc.ref.id, doc.data)

----------------------------------------------------------------------------
(* The converters *)

\* Object.entries(value) of an array or of an object without class methods;
\* a promise has no own entries
OwnEntries(value) ==
  CASE value.class = "Array" -> [i \in 1..Len(value.items) |-> <<i, value.items[i]>>]
    [] value.class = "Object" -> value.entries
    [] value.class = "Promise" -> <<>>

\* the first throw of a forEach over converted entries, or Null
FirstThrow(converted) ==
  LET bad == {i \in 1..Len(converted) : IsThrow(converted[i][2])}
  IN IF bad = {} THEN Null
     ELSE converted[CHOOSE i \in bad : \A j \in bad : i <= j][2]

\* processedData after the forEach: an array stays an array, anything else
\* becomes an object literal
Processed(value, converted) ==
  IF FirstThrow(converted) # Null THEN FirstThrow(converted)
  ELSE IF value.class = "Array"
    THEN Arr([i \in 1..Len(converted) |-> converted[i][2]])
    ELSE Obj(converted)

RECURSIVE readDocsToWriteDocs(_, _, _)
readDocsToWriteDocs(d, transaction, data) ==
  CASE data.class = "ReadDoc" -> WriteDoc_fromRead(data)
    [] data.class = "ReadRef" -> Throw(Error("ReferenceError", "WriteRead is not defined", <<>>))
    [] data.class \notin {"ReadDoc", "ReadRef"} /\ Truthy(data) /\ IsObject(data) ->
         LET entries == OwnEntries(data)
         IN Processed(data,
              [i \in 1..Len(entries) |->
                 <<entries[i][1], readDocsToWriteDocs(d, transaction, entries[i][2])>>])
    [] OTHER -> data

RECURSIVE writeDocsToDocs(_, _)
writeDocsToDocs(d, value) ==
  CASE value.class = "WriteDoc" ->
         Doc(Collection(d, value.ref.collection.name, value.ref.collection.path),
             value.ref.id, value.data)
    [] value.class = "WriteRef" ->
         \* value.ref.collection of a WriteRef, which has no ref property;
         \* Collection is handed (name, path) for (db, name, path)
         IF "ref" \in DOMAIN value
           THEN Ref(Collection(value.ref.collection.name, value.ref.collection.path,
                               Undefined),
                    value.ref.id)
           ELSE Throw(Error("TypeError", "Cannot read properties of undefined", <<>>))
    [] value.class \notin {"WriteDoc", "WriteRef"} /\ Truthy(value) /\ IsObject(value) ->
         LET entries == OwnEntries(value)
         IN Processed(value,
              [i \in 1..Len(entries) |->
                 <<entries[i][1], writeDocsToDocs(d, entries[i][2])>>])
    [] OTHER -> value

transactionWriteHelpers(d, transaction, readValue) ==
  [db |-> writeDB(d, transaction),
   result |-> readDocsToWriteDocs(rootDB, transaction, readValue)]

----------------------------------------------------------------------------
(* The external client (consumed): one transaction handle per attempt,     *)
(* writes staged on a handle and applied together on commit                *)

Handles == 1..MaxAttempts

CollectionPaths ==
  {<<"users">>, <<"posts">>} \cup {<<"posts", Slash, id, Slash, "comments">> : id \in Ids}

DocPaths == {DocOf(path, id) : path \in CollectionPaths, id \in Ids}

InitialStore ==
  [doc \in DocPaths |->
     CASE doc = <<"users", Slash, "1">> ->
            Obj(<< <<"n", Num(1)>>,
                   <<"friend", DocumentReference(<<"posts", Slash, "1", Slash,
                                                   "comments", Slash, "2">>)>> >>)
       [] doc = <<"posts", Slash, "1", Slash, "comments", Slash, "1">> ->
            Obj(<< <<"n", Num(1)>> >>)
       [] OTHER -> NoDoc]

\* a merge of the fields of data onto an existing document
MergeData(old, data) ==
  IF old = NoDoc \/ old.class # "Object" \/ data.class # "Object" THEN data
  ELSE Obj(SelectSeq(old.entries, LAMBDA e : e[1] \notin Keys(data.entries))
           \o data.entries)

ApplyWrite(s, w) ==
  CASE w.method = "set" /\ ~w.merge -> [s EXCEPT ![w.doc] = w.data]
    [] w.method = "set" /\ w.merge -> [s EXCEPT ![w.doc] = MergeData(@, w.data)]
    [] w.method = "update" -> [s EXCEPT ![w.doc] = MergeData(@, w.data)]
    [] w.method = "delete" -> [s EXCEPT ![w.doc] = NoDoc]

RECURSIVE ApplyAll(_, _)
ApplyAll(s, writes) ==
  IF writes = <<>> THEN s ELSE ApplyAll(ApplyWrite(s, Head(writes)), Tail(writes))

\* the client refuses to commit an update of a document that does not exist
RECURSIVE CanCommit(_, _)
CanCommit(s, writes) ==
  IF writes = <<>> THEN TRUE
  ELSE /\ Head(writes).method = "update" => s[Head(writes).doc] # NoDoc
       /\ CanCommit(ApplyWrite(s, Head(writes)), Tail(writes))

\* transaction.set / update / delete: the handle named by the call keeps it
Stage(st, calls) ==
  IF calls = <<>> THEN st
  ELSE [st EXCEPT ![calls[1].transaction] = Append(@, calls[1])]

\* assertEnvironment(as): this adapter runs on the server
environment == "server"
assertEnvironment(as) ==
  IF as # "undefined" /\ as # environment
    THEN Throw(Error("Error", "Expected environment", <<as>>))
    ELSE Undefined

----------------------------------------------------------------------------
(* What the user's callbacks may do *)

NoCall == [op |-> "none"]

\* the documents and references a value holds, in arrays and mappings
RECURSIVE Leaves(_)
Leaves(v) ==
  CASE v.class = "Array" -> UNION {Leaves(v.items[i]) : i \in 1..Len(v.items)}
    [] v.class = "Object" -> UNION {Leaves(v.entries[i][2]) : i \in 1..Len(v.entries)}
    [] v.class \in {"ReadDoc", "ReadRef", "WriteDoc", "WriteRef", "Doc", "Ref"} -> {v}
    [] OTHER -> {}

\* the references embedded in the payloads of the documents of a set
EmbeddedRefs(docs) ==
  UNION {Leaves(doc.data) : doc \in {x \in docs : x.class \in {"ReadDoc", "WriteDoc"}}}

GotDocs == {got[i] : i \in {j \in 1..Len(got) : got[j] # Null}}

\* everything the read callback can reach from its helpers
ReadReachable == ReadHandles(readTree) \cup GotDocs \cup {doc.ref : doc \in GotDocs}
                   \cup EmbeddedRefs(GotDocs)

\* everything the write callback can reach from its helpers
WriteReachable ==
  LET docs == Leaves(result)
  IN WriteHandles(writeTree) \cup docs
       \cup {doc.ref : doc \in {x \in docs : x.class = "WriteDoc"}}
       \cup EmbeddedRefs(docs)

Mutable(v) == v.class \in {"WriteCollection", "WriteRef", "WriteDoc"}

\* The repertoire of the callbacks of one run (mode): "tree" callbacks read
\* nothing and mutate through the handles of the write tree, with every form
\* of payload; "result" callbacks read, pass on what they read and mutate
\* through it; "e2e" callbacks are those of the end-to-end scenario: the
\* read callback gets users/2, the write callback sets it through the tree.

\* the get(id) calls of the read callbacks
GetMenu ==
  IF mode = "e2e" THEN {[path |-> <<"users">>, id |-> "2"]} ELSE
  {[path |-> <<"users">>, id |-> "1"],
   [path |-> <<"posts">>, id |-> "2"],
   [path |-> <<"posts", Slash, "1", Slash, "comments">>, id |-> "1"]}

\* the handle calls of the "tree" write callbacks
MutateMenu ==
  IF mode = "e2e" THEN {[path |-> <<"users">>, id |-> "2"]} ELSE
  {[path |-> <<"users">>, id |-> "2"],
   [path |-> <<"posts", Slash, "2", Slash, "comments">>, id |-> "1"]}

\* the mutation calls open to the running callback: on a handle with an id,
\* or on a document or reference.  A read callback that finds a mutation
\* within its reach uses it once.
Targets ==
  IF wc = "running" /\ mode \in {"tree", "e2e"}
    THEN {t \in [obj : {v \in WriteReachable : v.class = "WriteCollection"}, id : Ids] :
            [path |-> t.obj.path, id |-> t.id] \in MutateMenu}
  ELSE IF wc = "running"
    THEN {[obj |-> o, id |-> "this"] : o \in Leaves(result)}
  ELSE IF rc = "pending" /\ mode = "result" /\ staged[txn] = <<>>
    THEN {[obj |-> o, id |-> "this"] :
            o \in {v \in ReadReachable : v.class \in {"WriteDoc", "WriteRef"}}}
         \cup {[obj |-> o, id |-> id] :
                 o \in {v \in ReadReachable : v.class = "WriteCollection"}, id \in Ids}
  ELSE {}

\* plain data: numbers, null, arrays and mappings, no reference
PlainData ==
  {Obj(<< <<"n", Num(1)>> >>),
   Obj(<< <<"n", Num(0)>>, <<"tags", Arr(<<Num(1), Obj(<< <<"k", Null>> >>)>>)>> >>),
   Fn(Obj(<< <<"n", Num(2)>>, <<"list", Arr(<<>>)>> >>))}

SetData ==
  IF mode = "e2e" THEN PlainData
  ELSE IF mode = "tree"
    THEN {Obj(<< <<"n", Num(2)>> >>), Fn(Obj(<< <<"n", Num(2)>> >>))}
    ELSE {Obj(<< <<"n", Num(2)>> >>)}

EmptyUpdates ==
  {Obj(<<>>), Arr(<<>>), Undefined, Fn(Obj(<<>>)), Fn(Arr(<<>>)), Fn(Undefined)}

UpdateData ==
  IF mode = "tree"
    THEN EmptyUpdates \cup
         {Obj(<< <<"n", Num(3)>> >>), UpdateField("n", Num(3)),
          Arr(<<UpdateField("n", Num(3))>>), Fn(Arr(<<UpdateField("n", Num(3))>>))}
    ELSE {Obj(<< <<"n", Num(3)>> >>), Arr(<<>>), Fn(Undefined)}

\* what the read callback may settle with, from what its reads gave it
ReadResults ==
  LET first == IF got = <<>> THEN Null ELSE got[1]
      latest == IF got = <<>> THEN Null ELSE got[Len(got)]
      refs == {doc.ref : doc \in GotDocs \cap {latest}}
  IN IF mode = "tree" THEN {Undefined}
     ELSE IF mode = "e2e" THEN {latest}
     ELSE {latest, Arr(<<Num(1), latest>>),
           Obj(<< <<"a", first>>, <<"b", Arr(<<latest>>)>> >>)}
          \cup refs \cup {Obj(<< <<"r", Arr(<<r>>)>> >>) : r \in refs}

\* what the write callback may return, from what its helpers gave it
WriteResults ==
  LET docs == Leaves(result)
  IN IF mode = "e2e" THEN {Undefined} ELSE
     {Num(1)} \cup docs \cup {doc.ref : doc \in docs}
     \cup {Arr(<<Num(1), doc.ref>>) : doc \in docs}
     \cup {Obj(<< <<"a", Arr(<<doc>>)>>, <<"n", Null>> >>) : doc \in docs}

----------------------------------------------------------------------------
(* The state machine *)

Settled(state, value) == [state |-> state, value |-> value]
Unsettled == [state |-> "none"]

Init ==
  /\ db = Schema
  /\ store = InitialStore
  /\ pc = "idle"
  /\ options \in {"undefined", "server", "client"}
  /\ mode = IF options = "server" THEN "tree" ELSE "result"
  /\ txn = 0
  /\ staged = [h \in Handles |-> <<>>]
  /\ reads = [h \in Handles |-> {}]
  /\ last = NoCall
  /\ readTree = <<>>
  /\ writeTree = <<>>
  /\ result = Undefined
  /\ rc = "none"
  /\ wc = "none"
  /\ pending = {}
  /\ got = <<>>
  /\ readResult = Undefined
  /\ readCalls = [h \in Handles |-> 0]
  /\ writeCalls = [h \in Handles |-> 0]
  /\ body = Unsettled
  /\ outcome = Unsettled
  /\ committed = 0

\* transaction() without its environment check
transactionNoAssert(as) == Undefined

\* transaction(db, options): the check made before the builder is returned
transactionAssert(as) == assertEnvironment(as)

Transaction ==
  /\ pc = "idle"
  /\ LET checked == transactionAssert(options)
     IN IF IsThrow(checked)
          THEN pc' = "failed" /\ outcome' = Settled("threw", checked.error)
          ELSE pc' = "created" /\ UNCHANGED outcome
  /\ UNCHANGED <<db, store, options, mode, txn, staged, reads, last, readTree, writeTree,
                 result, rc, wc, pending, got, readResult, readCalls, writeCalls,
                 body, committed>>

\* .read(readCallback)
Read ==
  /\ pc = "created"
  /\ pc' = "hasRead"
  /\ UNCHANGED <<db, store, options, mode, txn, staged, reads, last, readTree, writeTree,
                 result, rc, wc, pending, got, readResult, readCalls, writeCalls,
                 body, outcome, committed>>

\* .write(writeCallback): hands the body to the client's runTransaction
Write ==
  /\ pc = "hasRead"
  /\ pc' = "opening"
  /\ UNCHANGED <<db, store, options, mode, txn, staged, reads, last, readTree, writeTree,
                 result, rc, wc, pending, got, readResult, readCalls, writeCalls,
                 body, outcome, committed>>

\* write helpers kept from the first attempt instead of built anew
BodyWriteHelpersStale(d, firebaseTransaction, readValue) ==
  transactionWriteHelpers(d, 1, readValue)

\* read helpers kept from the first attempt instead of built anew
BodyReadHelpersStale(d, firebaseTransaction) ==
  transactionReadHelpers(d, 1)

\* the helpers the body builds from the handle the client passes it
BodyReadHelpers(d, firebaseTransaction) ==
  transactionReadHelpers(d, firebaseTransaction)

BodyWriteHelpers(d, firebaseTransaction, readValue) ==
  transactionWriteHelpers(d, firebaseTransaction, readValue)

\* the client opens an attempt and calls the body, which runs up to its
\* await: it builds the read helpers and invokes the read callback
ClientBegin ==
  /\ pc = "opening"
  /\ txn < MaxAttempts
  /\ txn' = txn + 1
  /\ readTree' = BodyReadHelpers(db, txn').db
  /\ readCalls' = [readCalls EXCEPT ![txn'] = @ + 1]
  /\ rc' = "pending"
  /\ wc' = "none"
  /\ pending' = {}
  /\ got' = <<>>
  /\ readResult' = Undefined
  /\ writeTree' = <<>>
  /\ result' = Undefined
  /\ body' = Unsettled
  /\ last' = NoCall
  /\ pc' = "body"
  /\ db' = readDB_rootDB(db)
  /\ UNCHANGED <<store, options, mode, staged, reads, writeCalls, outcome, committed>>

\* get reading `${this.name}/${id}`
ReadCollection_docByName(this, id) == <<this.name, Slash, id>>

\* `${this.path}/${id}`, the document ReadCollection.get reads
ReadCollection_doc(this, id) == this.path \o <<Slash, id>>

\* ReadCollection.get once the snapshot has arrived
ReadCollection_get(this, id, snapshot) ==
  IF snapshot = NoDoc THEN Null
  ELSE ReadDoc(this, id, wrapData(this.db, snapshot, this.transaction))

\* the read callback calls get(id) on a handle: the point-read is issued.
\* The client refuses a read once a write is staged.
GetIssue(h, id) ==
  /\ pc = "body"
  /\ rc = "pending"
  /\ mode \in {"result", "e2e"}
  /\ Len(got) + Cardinality(pending) < MaxReads
  /\ staged[txn] = <<>>
  /\ [path |-> h.path, id |-> id] \in GetMenu
  /\ LET doc == ReadCollection_doc(h, id)
         call == [this |-> h, id |-> id, doc |-> doc]
     IN /\ call \notin pending
        /\ reads' = [reads EXCEPT ![h.transaction] = @ \cup {doc}]
        /\ pending' = pending \cup {call}
  /\ UNCHANGED <<db, store, pc, options, mode, txn, staged, last, readTree, writeTree,
                 result, rc, wc, got, readResult, readCalls, writeCalls, body,
                 outcome, committed>>

\* the snapshot arrives and get resolves
GetComplete(call) ==
  /\ pc = "body"
  /\ call \in pending
  /\ got' = Append(got, ReadCollection_get(call.this, call.id, store[call.doc]))
  /\ pending' = pending \ {call}
  /\ last' = [op |-> "get", obj |-> call.this, id |-> call.id]
  /\ UNCHANGED <<db, store, pc, options, mode, txn, staged, reads, readTree, writeTree,
                 result, rc, wc, readResult, readCalls, writeCalls, body, outcome,
                 committed>>

\* the read callback's promise settles, once its reads have; what its gets
\* gave it lives on only in the value it settles with
ReadCbReturn(value) ==
  /\ pc = "body"
  /\ rc = "pending"
  /\ pending = {}
  /\ rc' = "resolved"
  /\ readResult' = value
  /\ got' = <<>>
  /\ last' = [op |-> "return", value |-> value, by |-> "read"]
  /\ UNCHANGED <<db, store, pc, options, mode, txn, staged, reads, readTree,
                 writeTree, result, wc, pending, readCalls, writeCalls, body,
                 outcome, committed>>

ReadCbThrow ==
  /\ pc = "body"
  /\ rc = "pending"
  /\ pending = {}
  /\ rc' = "rejected"
  /\ readResult' = Throw(Error("UserError", "read callback", <<>>))
  /\ got' = <<>>
  /\ last' = [op |-> "throw", by |-> "read"]
  /\ UNCHANGED <<db, store, pc, options, mode, txn, staged, reads, readTree,
                 writeTree, result, wc, pending, readCalls, writeCalls, body,
                 outcome, committed>>

\* the body without its await
AwaitSkipped(state) == TRUE

\* a body that swallows the rejection of the read callback
AwaitSwallowed(state, value) ==
  IF state = "pending" THEN Promise(state)
  ELSE IF state = "rejected" THEN Undefined ELSE value

\* `await readCallback(...)`: the body goes on once the promise has settled,
\* with the value it resolved with, or the error it rejected with rethrown
AwaitSettled(state) == state # "pending"

AwaitOutcome(state, value) == IF state = "pending" THEN Promise(state) ELSE value

\* the body after its await: it builds the write helpers, converts the read
\* result and invokes the write callback
BodyResume ==
  /\ pc = "body"
  /\ wc = "none"
  /\ AwaitSettled(rc)
  /\ LET readValue == AwaitOutcome(rc, readResult)
     IN IF IsThrow(readValue)
          THEN /\ body' = Settled("rejected", readValue.error)
               /\ pc' = "bodyEnded"
               /\ UNCHANGED <<db, writeTree, result, wc, writeCalls>>
          ELSE LET helpers == BodyWriteHelpers(db, txn, readValue)
               IN /\ db' = writeDB_rootDB(db)
                  /\ IF IsThrow(helpers.result)
                    THEN /\ body' = Settled("rejected", helpers.result.error)
                         /\ pc' = "bodyEnded"
                         /\ UNCHANGED <<writeTree, result, wc, writeCalls>>
                    ELSE /\ writeTree' = helpers.db
                         /\ result' = helpers.result
                         /\ wc' = "running"
                         /\ writeCalls' = [writeCalls EXCEPT ![txn] = @ + 1]
                         /\ UNCHANGED <<body, pc>>
  /\ UNCHANGED <<store, options, mode, txn, staged, reads, last, readTree, rc, pending,
                 got, readResult, readCalls, outcome, committed>>

\* the method of a target, by its class
CallSet(t, data) ==
  CASE t.obj.class = "WriteCollection" -> WriteCollection_set(t.obj, t.id, data)
    [] t.obj.class = "WriteRef" -> WriteRef_set(t.obj, data)
    [] t.obj.class = "WriteDoc" -> WriteDoc_set(t.obj, data)

CallUpset(t, data) ==
  CASE t.obj.class = "WriteCollection" -> WriteCollection_upset(t.obj, t.id, data)
    [] t.obj.class = "WriteRef" -> WriteRef_upset(t.obj, data)
    [] t.obj.class = "WriteDoc" -> WriteDoc_upset(t.obj, data)

CallUpdate(t, data) ==
  CASE t.obj.class = "WriteCollection" -> WriteCollection_update(t.obj, t.id, data)
    [] t.obj.class = "WriteRef" -> WriteRef_update(t.obj, data)
    [] t.obj.class = "WriteDoc" -> WriteDoc_update(t.obj, data)

CallRemove(t) ==
  CASE t.obj.class = "WriteCollection" -> WriteCollection_remove(t.obj, t.id)
    [] t.obj.class = "WriteRef" -> WriteRef_remove(t.obj)
    [] t.obj.class = "WriteDoc" -> WriteDoc_remove(t.obj)

Caller == IF wc = "running" THEN "write" ELSE "read"

\* a callback calls a mutation: the client's transaction is handed the calls
Mutate(op, t, data, calls) ==
  /\ pc = "body"
  /\ t \in Targets
  /\ staged' = Stage(staged, calls)
  /\ \A h \in Handles : Len(staged'[h]) <= MaxWrites
  /\ last' = [op |-> op, obj |-> t.obj, id |-> t.id, data |-> data, by |-> Caller,
              called |-> Invocations(data)]
  /\ UNCHANGED <<db, store, pc, options, mode, txn, reads, readTree, writeTree, result,
                 rc, wc, pending, got, readResult, readCalls, writeCalls, body,
                 outcome, committed>>

Set(t, data) == Mutate("set", t, data, CallSet(t, data))
Upset(t, data) == Mutate("upset", t, data, CallUpset(t, data))
Update(t, data) == Mutate("update", t, data, CallUpdate(t, data))
Remove(t) == Mutate("remove", t, Undefined, CallRemove(t))

\* the write callback returns: the body converts the value and resolves
WriteCbReturn(value) ==
  /\ pc = "body"
  /\ wc = "running"
  /\ wc' = "returned"
  /\ last' = [op |-> "return", value |-> value, by |-> "write"]
  /\ LET converted == writeDocsToDocs(rootDB, value)
     IN body' = IF IsThrow(converted) THEN Settled("rejected", converted.error)
                ELSE Settled("resolved", converted)
  /\ pc' = "bodyEnded"
  /\ UNCHANGED <<db, store, options, mode, txn, staged, reads, readTree, writeTree, result,
                 rc, pending, got, readResult, readCalls, writeCalls, outcome,
                 committed>>

WriteCbThrow ==
  /\ pc = "body"
  /\ wc = "running"
  /\ wc' = "threw"
  /\ body' = Settled("rejected", Error("UserError", "write callback", <<>>))
  /\ last' = [op |-> "throw", by |-> "write"]
  /\ pc' = "bodyEnded"
  /\ UNCHANGED <<db, store, options, mode, txn, staged, reads, readTree, writeTree,
                 result, rc, pending, got, readResult, readCalls, writeCalls,
                 outcome, committed>>

\* the body resolved: the client commits the writes staged on the handle
ClientCommit ==
  /\ pc = "bodyEnded"
  /\ body.state = "resolved"
  /\ CanCommit(store, staged[txn])
  /\ store' = ApplyAll(store, staged[txn])
  /\ committed' = txn
  /\ outcome' = Settled("resolved", body.value)
  /\ pc' = "committed"
  /\ UNCHANGED <<db, options, mode, txn, staged, reads, last, readTree, writeTree, result,
                 rc, wc, pending, got, readResult, readCalls, writeCalls, body>>

\* the commit met contention: the client drops the handle and runs the body
\* again on a new one
ClientRetry ==
  /\ pc = "bodyEnded"
  /\ body.state = "resolved"
  /\ txn < MaxAttempts
  /\ staged' = [staged EXCEPT ![txn] = <<>>]
  /\ reads' = [reads EXCEPT ![txn] = {}]
  /\ pc' = "opening"
  /\ UNCHANGED <<db, store, options, mode, txn, last, readTree, writeTree, result, rc, wc,
                 pending, got, readResult, readCalls, writeCalls, body, outcome,
                 committed>>

\* the commit failed for good: the client's error reaches the caller
ClientFail ==
  /\ pc = "bodyEnded"
  /\ body.state = "resolved"
  /\ outcome' = Settled("rejected", Error("ClientError", "commit", <<>>))
  /\ pc' = "failed"
  /\ UNCHANGED <<db, store, options, mode, txn, staged, reads, last, readTree, writeTree,
                 result, rc, wc, pending, got, readResult, readCalls, writeCalls,
                 body, committed>>

\* the body rejected: the client rolls back and rejects with the same error
ClientRollback ==
  /\ pc = "bodyEnded"
  /\ body.state = "rejected"
  /\ outcome' = Settled("rejected", body.value)
  /\ pc' = "failed"
  /\ UNCHANGED <<db, store, options, mode, txn, staged, reads, last, readTree, writeTree,
                 result, rc, wc, pending, got, readResult, readCalls, writeCalls,
                 body, committed>>

Next ==
  \/ Transaction
  \/ Read
  \/ Write
  \/ ClientBegin
  \/ \E h \in ReadHandles(readTree), id \in Ids : GetIssue(h, id)
  \/ \E call \in pending : GetComplete(call)
  \/ \E value \in ReadResults : ReadCbReturn(value)
  \/ ReadCbThrow
  \/ BodyResume
  \/ \E t \in Targets, data \in SetData : Set(t, data)
  \/ \E t \in Targets, data \in SetData : Upset(t, data)
  \/ \E t \in Targets, data \in UpdateData : Update(t, data)
  \/ \E t \in Targets : Remove(t)
  \/ \E value \in WriteResults : WriteCbReturn(value)
  \/ WriteCbThrow
  \/ ClientCommit
  \/ ClientRetry
  \/ ClientFail
  \/ ClientRollback

Spec == Init /\ [][Next]_vars

----------------------------------------------------------------------------
(* Successive transactions on one database: the end-to-end scenario.  Every *)
(* invocation commits; the next one is given a new handle by the client.    *)

\* nothing has been called yet
Fresh ==
  /\ store = InitialStore
  /\ pc = "idle"
  /\ txn = 0
  /\ staged = [h \in Handles |-> <<>>]
  /\ reads = [h \in Handles |-> {}]
  /\ last = NoCall
  /\ readTree = <<>>
  /\ writeTree = <<>>
  /\ result = Undefined
  /\ rc = "none"
  /\ wc = "none"
  /\ pending = {}
  /\ got = <<>>
  /\ readResult = Undefined
  /\ readCalls = [h \in Handles |-> 0]
  /\ writeCalls = [h \in Handles |-> 0]
  /\ body = Unsettled
  /\ outcome = Unsettled
  /\ committed = 0

InitSeq ==
  /\ db = Schema
  /\ options = "undefined"
  /\ mode = "e2e"
  /\ Fresh

\* the caller invokes transaction(db, options) again after a commit; the
\* client keeps nothing of the handles that came before the committed one
NextTransaction ==
  /\ pc = "committed"
  /\ txn < MaxAttempts
  /\ pc' = "idle"
  /\ rc' = "none"
  /\ wc' = "none"
  /\ last' = NoCall
  /\ readTree' = <<>>
  /\ writeTree' = <<>>
  /\ result' = Undefined
  /\ readResult' = Undefined
  /\ body' = Unsettled
  /\ outcome' = Unsettled
  /\ staged' = [h \in Handles |-> IF h = committed THEN staged[h] ELSE <<>>]
  /\ reads' = [h \in Handles |-> IF h = committed THEN reads[h] ELSE {}]
  /\ UNCHANGED <<db, store, options, mode, txn, pending, got, readCalls, writeCalls,
                 committed>>

NextSeq ==
  \/ Transaction
  \/ Read
  \/ Write
  \/ ClientBegin
  \/ \E h \in ReadHandles(readTree), id \in Ids : GetIssue(h, id)
  \/ \E call \in pending : GetComplete(call)
  \/ \E value \in ReadResults : ReadCbReturn(value)
  \/ BodyResume
  \/ \E t \in Targets, data \in SetData : Set(t, data)
  \/ \E value \in WriteResults : WriteCbReturn(value)
  \/ ClientCommit
  \/ NextTransaction

SpecSeq == InitSeq /\ [][NextSeq]_vars

----------------------------------------------------------------------------
(* The trees on their own: built from any schema descriptor for any        *)
(* transaction handle, and descended through their proxies                 *)

InitTree ==
  /\ db \in SchemaSet
  /\ options = "undefined"
  /\ mode = "tree"
  /\ Fresh

\* readDB(db, transaction) and writeDB(db, transaction)
BuildTrees(transaction) ==
  /\ pc = "idle"
  /\ pc' = "trees"
  /\ txn' = transaction
  /\ readTree' = readDB(db, transaction)
  /\ writeTree' = writeDB(db, transaction)
  /\ db' = writeDB_rootDB(readDB_rootDB(db))
  /\ UNCHANGED <<store, options, mode, staged, reads, last, result, rc, wc, pending,
                 got, readResult, readCalls, writeCalls, body, outcome, committed>>

\* db.<key>(id) on both trees: the proxies are applied
Descend(key, id) ==
  /\ pc = "trees"
  /\ key \in Keys(readTree) \cap Keys(writeTree)
  /\ Lookup(readTree, key).proxy
  /\ Lookup(writeTree, key).proxy
  /\ readTree' = ReadApply(Lookup(readTree, key), id)
  /\ writeTree' = WriteApply(Lookup(writeTree, key), id)
  /\ last' = [op |-> "apply", obj |-> Lookup(readTree, key).target, id |-> id]
  /\ UNCHANGED <<db, store, pc, options, mode, txn, staged, reads, result, rc, wc,
                 pending, got, readResult, readCalls, writeCalls, body, outcome,
                 committed>>

NextTree ==
  \/ \E transaction \in Handles : BuildTrees(transaction)
  \/ \E key \in Keys(readTree), id \in Ids : Descend(key, id)

SpecTree == InitTree /\ [][NextTree]_vars

----------------------------------------------------------------------------
(* The exported path resolver on its own, on any path string *)

\* the path strings: every string of at most MaxPathLen atoms over two
\* chunks and the separator (two chunks side by side are one chunk, so
\* they never are), and the path a/b/c/d
PathAtoms == {"a", "b", Slash}

PathInputs ==
  {p \in UNION {[1..n -> PathAtoms] : n \in 0..MaxPathLen} :
     \A i \in 1..(Len(p) - 1) : p[i] = Slash \/ p[i + 1] = Slash}
  \cup {<<"a", Slash, "b", Slash, "c", Slash, "d">>}

InitPath ==
  /\ db = Schema
  /\ options = "undefined"
  /\ mode = "tree"
  /\ Fresh

\* pathToWriteRef(db, transaction, path)
ResolvePath(transaction, path) ==
  /\ pc = "idle"
  /\ pc' = "resolved"
  /\ last' = [op |-> "pathToWriteRef", transaction |-> transaction, path |-> path]
  /\ result' = pathToWriteRef(rootDB, transaction, path)
  /\ UNCHANGED <<db, store, options, mode, txn, staged, reads, readTree, writeTree,
                 rc, wc, pending, got, readResult, readCalls, writeCalls, body,
                 outcome, committed>>

NextPath == \E transaction \in Handles, path \in PathInputs : ResolvePath(transaction, path)

SpecPath == InitPath /\ [][NextPath]_vars

----------------------------------------------------------------------------
(* Properties *)

MutationOps == {"set", "upset", "update", "remove"}

UserReadError == Error("UserError", "read callback", <<>>)
UserWriteError == Error("UserError", "write callback", <<>>)

C2_NoMutationFromReadHelpers ==
  rc = "pending" =>
    /\ \A v \in ReadReachable : ~Mutable(v)
    /\ staged[txn] = <<>>
    /\ \A r \in EmbeddedRefs(GotDocs) :
         r.class = "ReadRef" /\ r.collection.transaction = txn

\* C3: a throw of the read or of the write callback reaches the caller
\* unchanged, the attempt is never committed or retried, the store keeps
\* its content, and after a throw of the read callback the write callback
\* is not invoked.
C3_ThrowAborts ==
  /\ rc = "rejected" =>
       /\ writeCalls[txn] = 0
       /\ wc = "none"
       /\ readResult = Throw(UserReadError)
       /\ pc \in {"body", "bodyEnded", "failed"}
       /\ pc # "body" => body = Settled("rejected", UserReadError)
       /\ pc = "failed" => outcome = Settled("rejected", UserReadError)
  /\ wc = "threw" =>
       /\ pc \in {"bodyEnded", "failed"}
       /\ body = Settled("rejected", UserWriteError)
       /\ pc = "failed" => outcome = Settled("rejected", UserWriteError)
  /\ (rc = "rejected" \/ wc = "threw") => (store = InitialStore /\ committed = 0)

C3_Witness ==
  /\ pc = "failed"
  /\ wc = "threw"
  /\ Len(staged[txn]) = 2
  /\ outcome = Settled("rejected", UserWriteError)

\* C4: every attempt runs the read callback and then the write callback
\* with trees built for that attempt's handle; no write reaches or stays on
\* the handle of another attempt; nothing is visible before the commit, and
\* the store after it is the initial store with exactly the writes staged
\* on the committing attempt's handle applied.
C4_RetryRebuildsAndCommitsOnce ==
  /\ \A h \in ReadHandles(readTree) : h.transaction = txn
  /\ \A h \in WriteHandles(writeTree) : h.transaction = txn
  /\ \A h \in Handles : h # txn => staged[h] = <<>>
  /\ \A a \in Handles : a < txn => (readCalls[a] = 1 /\ writeCalls[a] = 1)
  /\ (wc = "running" /\ last.op \in {"set", "upset", "remove"} /\ last.by = "write")
       => staged[txn] # <<>>
  /\ pc # "committed" => (store = InitialStore /\ committed = 0)
  /\ pc = "committed" =>
       /\ committed = txn
       /\ readCalls[txn] = 1
       /\ writeCalls[txn] = 1
       /\ store = ApplyAll(InitialStore, staged[txn])

C4_Witness ==
  /\ pc = "committed"
  /\ txn = 2
  /\ Len(staged[txn]) = 2
  /\ store # InitialStore

ReadDocsIn(v) == {x \in Leaves(v) : x.class = "ReadDoc"}
ReadRefsIn(v) == {x \in Leaves(v) : x.class = "ReadRef"}

EmptyPayload(data) == data \in {Obj(<<>>), Arr(<<>>), Undefined}

\* the update payloads whose resolved update set is empty
IsEmptyUpdate(data) ==
  \/ EmptyPayload(data)
  \/ data.class = "Function" /\ EmptyPayload(data.returns)

\* the client method a mutation stands for
MethodOf(op) ==
  CASE op = "set" -> "set"
    [] op = "upset" -> "set"
    [] op = "update" -> "update"
    [] op = "remove" -> "delete"

LastStaged == staged[txn][Len(staged[txn])]

\* C5: a mutation the write callback calls on a converted Document of its
\* result stages that mutation on the document P/id of the read Document it
\* was converted from, which get read on a handle of path P, and on the
\* transaction handle that read was bound to.
C5_ConvertedDocWritesWhereRead ==
  (/\ wc = "running"
   /\ last.op \in MutationOps
   /\ last.by = "write"
   /\ last.obj.class = "WriteDoc"
   /\ ~(last.op = "update" /\ IsEmptyUpdate(last.data)))
  => \E D \in ReadDocsIn(readResult) :
       /\ D.ref.id = last.obj.ref.id
       /\ D.data = last.obj.data
       /\ D.ref.collection \in ReadHandles(readTree)
       /\ DocOf(D.ref.collection.path, D.ref.id) \in reads[txn]
       /\ staged[txn] # <<>>
       /\ LastStaged.doc = DocOf(D.ref.collection.path, D.ref.id)
       /\ LastStaged.transaction = D.ref.collection.transaction
       /\ LastStaged.transaction = txn
       /\ LastStaged.method = MethodOf(last.op)
       /\ LastStaged.merge = (last.op = "upset")

C5_Witness ==
  /\ wc = "running"
  /\ last.op = "update"
  /\ last.by = "write"
  /\ last.obj.class = "WriteDoc"
  /\ Len(last.obj.ref.collection.path) > 1
  /\ Len(staged[txn]) = 2
  /\ LastStaged.method = "update"

\* C6: once the body has gone past its await with a read result that holds
\* a read Reference, the conversion has raised no error, the write callback
\* was invoked, and its result holds for each read Reference a write
\* Reference with the same id, collection name and path, on the same
\* transaction.
C6_ReadRefBecomesWriteRef ==
  (/\ rc = "resolved"
   /\ ReadRefsIn(readResult) # {}
   /\ (wc # "none" \/ pc # "body"))
  => /\ wc # "none"
     /\ \A r \in ReadRefsIn(readResult) :
          WriteRef(WriteCollection(r.collection.db, r.collection.transaction,
                                   r.collection.name, r.collection.path),
                   r.id) \in Leaves(result)

\* the caller-facing shape of a value the write callback returned
RECURSIVE PlainOf(_)
PlainOf(v) ==
  CASE v.class = "WriteDoc" ->
         Doc(Collection(rootDB, v.ref.collection.name, v.ref.collection.path),
             v.ref.id, v.data)
    [] v.class = "WriteRef" ->
         Ref(Collection(rootDB, v.collection.name, v.collection.path), v.id)
    [] v.class = "Array" -> Arr([i \in 1..Len(v.items) |-> PlainOf(v.items[i])])
    [] v.class = "Object" ->
         Obj([i \in 1..Len(v.entries) |-> <<v.entries[i][1], PlainOf(v.entries[i][2])>>])
    [] OTHER -> v

\* C7: once the write callback has returned, the body resolves with the
\* returned value in which every write Document and write Reference, at any
\* depth, is the plain Document or Reference of the same id, name and path
\* under the db handle, and a commit hands the caller that value.
C7_WriteResultMadePlain ==
  (last.op = "return" /\ last.by = "write" /\ pc \in {"bodyEnded", "committed", "failed"})
  => /\ body = Settled("resolved", PlainOf(last.value))
     /\ pc = "committed" => outcome = Settled("resolved", PlainOf(last.value))

\* C8: a step in which a callback calls update with a payload whose
\* resolved update set is empty ({}, [], undefined, or a function returning
\* one of them) leaves the writes staged on every handle as they were.
C8_EmptyUpdateStagesNothing ==
  [][(last'.op = "update" /\ IsEmptyUpdate(last'.data)) => staged' = staged]_vars

C8_Witness ==
  /\ wc = "running"
  /\ last.op = "update"
  /\ last.data = Fn(Arr(<<>>))
  /\ Len(staged[txn]) = 2

\* C9: when options.as names another environment than the one the code runs
\* in, transaction() throws at once: no transaction handle is opened, no
\* callback is invoked, nothing is read or staged.
C9_EnvironmentMismatchFailsFirst ==
  (options # "undefined" /\ options # environment)
  => /\ pc \in {"idle", "failed"}
     /\ pc = "failed" => outcome.state = "threw"
     /\ txn = 0
     /\ \A h \in Handles :
          readCalls[h] = 0 /\ writeCalls[h] = 0 /\ staged[h] = <<>> /\ reads[h] = {}
     /\ store = InitialStore

C9_Witness ==
  /\ options = "client"
  /\ pc = "failed"
  /\ outcome.state = "threw"

\* C10: a get(id) on a read handle of path P asks the attempt's transaction
\* for the one document P/id and stages nothing; when it resolves it gives
\* null for a missing document and otherwise a Document with ref.id = id,
\* ref.collection = the handle and environment "server", again staging
\* nothing.
C10_GetReadsOneDocument ==
  [][/\ \A call \in pending' \ pending :
          /\ call.this \in ReadHandles(readTree)
          /\ reads' = [reads EXCEPT ![txn] = @ \cup {DocOf(call.this.path, call.id)}]
          /\ staged' = staged
     /\ Len(got') = Len(got) + 1 =>
          LET v == got'[Len(got')]
              h == last'.obj
              doc == DocOf(last'.obj.path, last'.id)
          IN /\ h \in ReadHandles(readTree)
             /\ doc \in reads[txn]
             /\ staged' = staged
             /\ reads' = reads
             /\ IF store[doc] = NoDoc THEN v = Null
                ELSE /\ v.class = "ReadDoc"
                     /\ v.ref.id = last'.id
                     /\ v.ref.collection = h
                     /\ v.environment = "server"]_vars

C10_Witness ==
  /\ rc = "pending"
  /\ Len(got) = 2
  /\ got[1] = Null
  /\ got[2] # Null
  /\ Len(got[2].ref.collection.path) > 1

\* the writes of document doc among those staged on handle h
StagedOn(h, doc) == SelectSeq(staged[h], LAMBDA w : w.doc = doc)

\* C11: over successive transactions a get of users/id gives null while no
\* transaction has committed a document there; once a transaction whose
\* write callback called set(id, data) has committed, the get of a later
\* transaction gives a Document whose data is the data that was set: what
\* the client was handed is the unwrapped data, and the data read back is
\* structurally equal to the data before unwrapping.
C11_SetThenGetRoundTrip ==
  (last.op = "get" /\ rc = "pending" /\ got # <<>>)
  => LET v == got[Len(got)]
         doc == DocOf(last.obj.path, last.id)
     IN /\ committed = 0 => v = Null
        /\ (committed # 0 /\ StagedOn(committed, doc) # <<>>) =>
             LET w == StagedOn(committed, doc)[Len(StagedOn(committed, doc))]
             IN /\ v # Null
                /\ v.class = "ReadDoc"
                /\ v.ref.id = last.id
                /\ \E data \in PlainData :
                     /\ w.data = unwrapData(Resolve(data))
                     /\ v.data = Resolve(data)

C11_Witness ==
  /\ committed = 1
  /\ txn = 2
  /\ last.op = "get"
  /\ rc = "pending"
  /\ got # <<>>
  /\ got[Len(got)] # Null
  /\ got[Len(got)].data = Obj(<< <<"n", Num(0)>>,
                                <<"tags", Arr(<<Num(1), Obj(<< <<"k", Null>> >>)>>)>> >>)

\* the keys of a mapping, in entry order
KeySeq(entries) == [i \in 1..Len(entries) |-> entries[i][1]]

\* the (key, name, path) of the handle of every entry of a tree, in order
NamePaths(tree) ==
  [i \in 1..Len(tree) |-> <<tree[i][1], tree[i][2].target.name, tree[i][2].target.path>>]

\* C12: for every schema descriptor and transaction handle, the read tree
\* and the write tree hold, entry by entry, handles of the same name and
\* path, at the root (one entry per key of the descriptor other than id and
\* groups) and in the nested trees reached by applying the proxies of both
\* trees to the same ids.
C12_TreesMirrorEachOther ==
  pc = "trees"
  => /\ NamePaths(readTree) = NamePaths(writeTree)
     /\ \A i \in 1..Len(readTree) : readTree[i][2].proxy = writeTree[i][2].proxy
     /\ last = NoCall =>
          KeySeq(readTree) = KeySeq(SelectSeq(db, LAMBDA e : e[1] \notin {"id", "groups"}))

C12_Witness ==
  /\ pc = "trees"
  /\ last.op = "apply"
  /\ Len(writeTree) = 1
  /\ writeTree[1][2].target.path =
       <<"posts", Slash, "1", Slash, "comments", Slash, "2", Slash, "likes">>

\* C13: neither tree holds an entry under the key id or groups, at the root
\* or in a nested tree returned by a proxy.
C13_ReservedKeysNeverTraversed ==
  pc = "trees" => (Keys(readTree) \cup Keys(writeTree)) \cap {"id", "groups"} = {}

\* C14: once the body has converted a read result, every read Document in
\* it (each was given by get) has in the converted result a write Document
\* of the same document id and the same data payload whose collection has
\* the same name and path; a read result that is a Document is converted to
\* exactly that write Document.
C14_ReadDocBecomesWriteDoc ==
  (rc = "resolved" /\ wc # "none")
  => /\ \A D \in ReadDocsIn(readResult) :
          \E W \in Leaves(result) :
            /\ W.class = "WriteDoc"
            /\ W.ref.id = D.ref.id
            /\ W.data = D.data
            /\ W.ref.collection.name = D.ref.collection.name
            /\ W.ref.collection.path = D.ref.collection.path
     /\ readResult.class = "ReadDoc" =>
          /\ result.class = "WriteDoc"
          /\ result.ref.id = readResult.ref.id
          /\ result.data = readResult.data
          /\ result.ref.collection.name = readResult.ref.collection.name
          /\ result.ref.collection.path = readResult.ref.collection.path

C14_Witness ==
  /\ wc = "running"
  /\ readResult.class = "ReadDoc"
  /\ readResult.ref.collection.path = <<"posts", Slash, "1", Slash, "comments">>
  /\ result.class = "WriteDoc"
  /\ result.data = Obj(<< <<"n", Num(1)>> >>)

\* a converted value has the shape of the value it was converted from
RECURSIVE ConvertedShape(_, _)
ConvertedShape(r, w) ==
  CASE r.class = "ReadDoc" -> w.class = "WriteDoc"
    [] r.class = "ReadRef" -> w.class = "WriteRef"
    [] r.class = "Array" ->
         /\ w.class = "Array"
         /\ Len(w.items) = Len(r.items)
         /\ \A i \in 1..Len(r.items) : ConvertedShape(r.items[i], w.items[i])
    [] r.class = "Object" ->
         /\ w.class = "Object"
         /\ KeySeq(w.entries) = KeySeq(r.entries)
         /\ \A i \in 1..Len(r.entries) : ConvertedShape(r.entries[i][2], w.entries[i][2])
    [] OTHER -> w = r

\* C15: once the body has gone past its await with a resolved read result,
\* the converter has produced a value of the same shape: arrays stay arrays
\* of the same length and order, mappings keep their keys, read Documents
\* and read References are replaced by their write counterparts and every
\* other leaf is the same value.
C15_ConverterKeepsShape ==
  (rc = "resolved" /\ (wc # "none" \/ pc # "body"))
  => /\ wc # "none"
     /\ ConvertedShape(readResult, result)

\* the segments of a path string: what stands between its separators, each
\* <<>> (an empty component) or one chunk
RECURSIVE SplitPath(_)
SplitPath(p) ==
  IF \A i \in 1..Len(p) : p[i] # Slash THEN <<p>>
  ELSE LET i == CHOOSE j \in 1..Len(p) : p[j] = Slash /\ \A k \in 1..(j - 1) : p[k] # Slash
       IN <<SubSeq(p, 1, i - 1)>> \o SplitPath(SubSeq(p, i + 1, Len(p)))

HandleOf(t) ==
  CASE t.class = "WriteCollection" -> t
    [] t.class = "WriteRef" -> t.collection
    [] t.class = "WriteDoc" -> t.ref.collection

IdOf(t, id) ==
  CASE t.class = "WriteCollection" -> id
    [] t.class = "WriteRef" -> t.id
    [] t.class = "WriteDoc" -> t.ref.id

\* the payload a mutation stands for: the data, or what the function gives
PayloadOf(data) == IF data.class = "Function" THEN data.returns ELSE data

\* the update set of a payload: a sequence of Update Fields or a single one
\* as the mapping of their fields, a partial structure as it is
FieldsOf(u) ==
  CASE u.class = "Array" -> Obj([i \in 1..Len(u.items) |-> <<u.items[i].key, u.items[i].value>>])
    [] u.class = "UpdateField" -> Obj(<< <<u.key, u.value>> >>)
    [] OTHER -> u

\* the one write a mutation is to stage
ExpectedWrite(op, t, id, data) ==
  [transaction |-> HandleOf(t).transaction,
   method |-> MethodOf(op),
   doc |-> HandleOf(t).path \o <<Slash, IdOf(t, id)>>,
   data |-> CASE op = "remove" -> Undefined
              [] op = "update" -> unwrapData(FieldsOf(PayloadOf(data)))
              [] OTHER -> unwrapData(PayloadOf(data)),
   merge |-> (op = "upset")]

\* C17: a step in which a callback calls set, upset, remove, or update with
\* a non-empty update set, on a handle of path P (or on a Document or
\* Reference of such a handle) appends exactly one write to those staged on
\* the handle's transaction: on document P/id, a set without merge for set,
\* a set with merge for upset, a delete for remove, an update with the
\* resolved update set for update; it changes nothing else (no read, no
\* change of the store, nothing staged elsewhere), and data given as a
\* function is called once.
C17_MutationStagesOneWrite ==
  [][(/\ last'.op \in MutationOps
      /\ (last' # last \/ staged' # staged)
      /\ ~(last'.op = "update" /\ IsEmptyUpdate(last'.data)))
     => /\ staged' = [staged EXCEPT ![HandleOf(last'.obj).transaction] =
                        Append(@, ExpectedWrite(last'.op, last'.obj, last'.id, last'.data))]
        /\ store' = store
        /\ reads' = reads
        /\ last'.called = IF last'.data.class = "Function" THEN 1 ELSE 0]_vars

C17_Witness ==
  /\ wc = "running"
  /\ last.op = "upset"
  /\ last.data.class = "Function"
  /\ last.obj.class = "WriteCollection"
  /\ Len(last.obj.path) > 1
  /\ Len(staged[txn]) = 2
  /\ staged[txn][2].merge
  /\ staged[txn][1].method = "update"

BoundTo(o) ==
  CASE o.class \in {"ReadCollection", "WriteCollection"} -> o.transaction
    [] o.class \in {"ReadRef", "WriteRef"} -> o.collection.transaction
    [] o.class \in {"ReadDoc", "WriteDoc"} -> o.ref.collection.transaction

\* every object the running attempt has created
AttemptObjects ==
  ReadReachable \cup Leaves(readResult) \cup EmbeddedRefs(Leaves(readResult))
    \cup (IF wc # "none" THEN WriteReachable ELSE {})

\* C19: while an attempt runs, every collection handle, Document and
\* Reference it has created (the handles of both trees, what get returned,
\* the references rehydrated in payloads, the converted read result) is
\* bound to the attempt's transaction handle; every write staged on a handle
\* names that handle; and a step of the attempt issues reads and stages
\* writes on no other handle than the attempt's.
C19_BoundToOwnAttempt ==
  [][/\ pc' = "body" => \A o \in AttemptObjects' : BoundTo(o) = txn'
     /\ \A h \in Handles : \A i \in 1..Len(staged'[h]) : staged'[h][i].transaction = h
     /\ \A h \in Handles \ {txn'} : reads'[h] = reads[h] /\ staged'[h] = staged[h]
     /\ \A h \in Handles : h > txn' => reads'[h] = {} /\ staged'[h] = <<>>]_vars

C19_Witness ==
  /\ txn = 2
  /\ wc = "running"
  /\ result.class = "WriteDoc"
  /\ reads[2] # {}
  /\ staged[2] # <<>>
  /\ staged[1] = <<>>

\* C20: no step changes the caller's schema descriptor: after the read tree
\* and the write tree have been built, any number of times, the db handle
\* has the entries it had, id and groups among them.
C20_SchemaDescriptorUntouched ==
  [][db' = db /\ {"id", "groups"} \subseteq Keys(db')]_vars

C20_Witness ==
  /\ pc = "committed"
  /\ txn = 2
  /\ writeTree # <<>>
  /\ Keys(writeTree) = {"users", "posts"}
  /\ Keys(db) = {"users", "posts", "id", "groups"}

====
